---- MODULE Spec2Model ----
(***************************************************************************)
(* sim/gen.py: generator of Q1.15 operand matrices A (N x 4), B (4 x N)    *)
(* and of the golden product C (N x N) of a 4-deep multiply-accumulate     *)
(* unit, with an optional dump of the three matrices as hex text files.    *)
(*                                                                         *)
(* Numbers.  TLC's integers are 32 bits wide, and the sum of four products *)
(* reaches 2^32, so the integers the program holds in int32 / int64 words  *)
(* are kept as two limbs [hi, lo] with value hi * 2^15 + lo, 0 <= lo <     *)
(* 2^15.  A real number x is kept as the integer q with                    *)
(* x = q / (Den * 32768): x * 32768.0 is then q / Den, which is exact in   *)
(* binary floating point as Den is a power of two.                         *)
(*                                                                         *)
(* Build.  Two things the program does depend on the NumPy it runs on:     *)
(*   default_int_bits  the width of NumPy's default integer, which is the  *)
(*                     accumulator of ndarray.sum over an int32 array      *)
(*                     (64 on Linux/macOS, 32 on Windows before NumPy 2    *)
(*                     and on 32-bit platforms);                           *)
(*   np_major          NumPy 1 promotes int16 & 0xFFFF to int32 by the     *)
(*                     value of the Python integer, NumPy 2 (NEP 50)       *)
(*                     keeps int16 and raises OverflowError as 65535 does  *)
(*                     not fit.                                            *)
(* Both are chosen once, in Init, and stay fixed over a behaviour.         *)
(***************************************************************************)
EXTENDS Integers, Sequences, FiniteSets, TLC

VARIABLES
    pc,                 \* position in main
    run,                \* 1 for the first invocation, 2 for the repeated one
    argN, seed, dump_hex,   \* args.N, args.seed, args.dump_hex
    np_major, default_int_bits,  \* the build (see above)
    rng,                \* the generator: [seed, pos] once created, else NoRng
    A, B,               \* float64 matrices (as numerators q)
    A_q, B_q,           \* int16 matrices
    prod, sum40, y, C_q,    \* the golden model's arrays
    stdout,             \* lines printed
    dir_made,           \* the output directory exists
    fa, fb, fc,         \* contents of A_N.hex, B_N.hex, C_N_gold.hex (NoFile: absent)
    wi, wj,             \* outer and inner index of the write loop in progress
    prev                \* matrices of the previous invocation

vars == << pc, run, argN, seed, dump_hex, np_major, default_int_bits, rng,
           A, B, A_q, B_q, prod, sum40, y, C_q, stdout, dir_made,
           fa, fb, fc, wi, wj, prev >>

----------------------------------------------------------------------------
(* Bounds of the model *)

\* seeds tried: 0 .. MaxSeed
MaxSeed == 5
\* values of --N tried: 0 .. MaxArgN (the accepted 4, 8, 16 and the rest)
MaxArgN == 16
\* binary digits a real input carries below one Q1.15 step
FracBits == 2

Den == 2 ^ FracBits

----------------------------------------------------------------------------
(* Program constants *)

\* to_q15: x * 32768.0
Scale == 32768
\* np.clip(..., -32768, 32767)
QMin == -32768
QMax == 32767
\* reduction depth: size=(args.N, 4)
K == 4
\* np.right_shift(..., 15)
ShiftBits == 15
\* 1 << 14
Bias == 2 ^ 14
\* & 0xFFFF
Mask16 == 65535

Choices == {4, 8, 16}

NoRng == [seed |-> -1, pos |-> -1]
NoFile == << "absent" >>
Empty == << >>

----------------------------------------------------------------------------
(* Fixed-width integers as limbs *)

Limb == 2 ^ ShiftBits

\* the integer v (|v| < 2^31) as limbs
Wide(v) == [hi |-> v \div Limb, lo |-> v % Limb]

WZero == [hi |-> 0, lo |-> 0]

WAdd(a, b) ==
    LET s == a.lo + b.lo
    IN  [hi |-> a.hi + b.hi + (s \div Limb), lo |-> s % Limb]

\* two's-complement wrap to a signed word of `bits` bits.  The high limb of a
\* value TLC can hold is below 2^31 in size, so a word of 46 bits or more
\* holds it unchanged.
WWrap(a, bits) ==
    IF bits - ShiftBits > 30
    THEN a
    ELSE LET m == 2 ^ (bits - ShiftBits)
         IN  [hi |-> ((a.hi + m \div 2) % m) - m \div 2, lo |-> a.lo]

\* the int16 a floating-point or integer value v is cast to
AsInt16(v) == ((v + 32768) % 65536) - 32768

Clip(v, lo, hi) == IF v < lo THEN lo ELSE IF v > hi THEN hi ELSE v

----------------------------------------------------------------------------
(* to_q15 *)

\* NpRound with halves rounded away from zero
NpRound_halfaway(q) ==
    LET f == q \div Den
        r == q % Den
    IN  IF 2 * r < Den THEN f
        ELSE IF 2 * r > Den THEN f + 1
        ELSE IF f >= 0 THEN f + 1 ELSE f

\* np.round of q / Den: to the nearest integer, halves to the even one
NpRound(q) ==
    LET f == q \div Den
        r == q % Den
    IN  IF 2 * r < Den THEN f
        ELSE IF 2 * r > Den THEN f + 1
        ELSE IF f % 2 = 0 THEN f ELSE f + 1

\* Q15 without the clip
Q15_noclip(q) == AsInt16(NpRound(q))

\* one element: x * 32768.0 is q / Den
Q15(q) == AsInt16(Clip(NpRound(q), QMin, QMax))

to_q15(x) == [e \in DOMAIN x |-> Q15(x[e])]

----------------------------------------------------------------------------
(* The random source *)

\* reals in [-1, 1) the modelled generator yields, as numerators q
RealVals ==
    << -(Den * Scale),          \* -1.0
       Den * Scale - 1,         \* just below 1.0
       Den \div 2,              \* half a step: a tie
       (3 * Den) \div 2,        \* one and a half steps: a tie
       -(Den \div 2),           \* minus half a step: a tie
       Den * 16384,             \* 0.5
       -(Den * 16384) + 1,      \* just above -0.5
       Den * 12345 + 1 >>

\* the pos-th value of the stream of `seed`: runs of K equal values,
\* alternating between two values the seed selects
Uniform(s, pos) ==
    LET L == Len(RealVals)
        a == s % L
        b == (s + 1 + (s \div L)) % L
    IN  RealVals[(IF (pos \div K) % 2 = 0 THEN a ELSE b) + 1]

\* np.random.default_rng(seed)
default_rng(s) == [seed |-> s, pos |-> 0]

\* rng.uniform(-1.0, 1.0, size=(rows, cols)): the array, row-major from the
\* generator's position
UniformArray(g, rows, cols) ==
    [e \in (0 .. rows - 1) \X (0 .. cols - 1) |->
        Uniform(g.seed, g.pos + e[1] * cols + e[2])]

Advance(g, n) == [g EXCEPT !.pos = @ + n]

----------------------------------------------------------------------------
(* The golden model *)

\* A_q.astype(int32)[..., None] * B_q.astype(int32)[None, ...]: int32
Product(a, b) == WWrap(Wide(a * b), 32)

ProdArray(Aq, Bq, n) ==
    [e \in (0 .. n - 1) \X (0 .. K - 1) \X (0 .. n - 1) |->
        Product(Aq[<<e[1], e[2]>>], Bq[<<e[2], e[3]>>])]

RECURSIVE SumK(_, _, _, _, _)
\* the sum over axis 1, accumulated in a word of `bits` bits
SumK(p, i, j, k, bits) ==
    IF k = 0 THEN WZero
    ELSE WWrap(WAdd(SumK(p, i, j, k - 1, bits), p[<<i, k - 1, j>>]), bits)

\* prod.sum(axis=1).astype(np.int64)
SumArray(p, n, bits) ==
    [e \in (0 .. n - 1) \X (0 .. n - 1) |->
        WWrap(SumK(p, e[1], e[2], K, bits), 64)]

\* RoundShift without the bias
RoundShift_nobias(s) == WWrap(s, 64).hi

\* RoundShift with the bias one less for a negative sum (halves away from zero)
RoundShift_sym(s) ==
    WWrap(WAdd(s, Wide(IF s.hi < 0 THEN Bias - 1 ELSE Bias)), 64).hi

\* np.right_shift(s + (1 << 14), 15) on int64
RoundShift(s) == WWrap(WAdd(s, Wide(Bias)), 64).hi

\* np.clip(y, -32768, 32767).astype(np.int16)
Saturate(v) == AsInt16(Clip(v, QMin, QMax))

----------------------------------------------------------------------------
(* Hex lines *)

HexDigits == << "0", "1", "2", "3", "4", "5", "6", "7",
                "8", "9", "a", "b", "c", "d", "e", "f" >>

\* v & 0xFFFF, v an int16 promoted to int32
And16(v) == v % (Mask16 + 1)

\* f"{u:04x}" for 0 <= u: at least four digits, zero padded
RECURSIVE HexOf(_)
HexOf(u) == IF u < 16 THEN << HexDigits[u + 1] >>
            ELSE Append(HexOf(u \div 16), HexDigits[(u % 16) + 1])

Format04x(u) ==
    LET h == HexOf(u)
    IN  IF Len(h) >= 4 THEN h
        ELSE [i \in 1 .. 4 |-> IF i <= 4 - Len(h) THEN "0" ELSE h[i - (4 - Len(h))]]

HexLine(v) == Format04x(And16(v))

----------------------------------------------------------------------------
(* main *)

NoPrev == [A_q |-> Empty, B_q |-> Empty, C_q |-> Empty]

\* the state of a fresh process: nothing computed yet
Fresh ==
    /\ rng = NoRng
    /\ A = Empty /\ B = Empty /\ A_q = Empty /\ B_q = Empty
    /\ prod = Empty /\ sum40 = Empty /\ y = Empty /\ C_q = Empty
    /\ stdout = << >>
    /\ wi = 0 /\ wj = 0

Init ==
    /\ pc = "parse"
    /\ run = 1
    /\ argN \in 0 .. MaxArgN
    /\ seed \in 0 .. MaxSeed
    /\ dump_hex \in BOOLEAN
    /\ np_major \in {1, 2}
    /\ default_int_bits \in {32, 64}
    /\ Fresh
    /\ dir_made = FALSE
    /\ fa = NoFile /\ fb = NoFile /\ fc = NoFile
    /\ prev = NoPrev

\* ValidN with no choices given
ValidN_any(n) == TRUE

\* type=int, choices=[4,8,16]
ValidN(n) == n \in Choices

\* p.parse_args(): a value of --N outside the choices ends the process
Parse ==
    /\ pc = "parse"
    /\ pc' = IF ValidN(argN) THEN "mkrng" ELSE "error"
    /\ UNCHANGED << run, argN, seed, dump_hex, np_major, default_int_bits, rng,
                    A, B, A_q, B_q, prod, sum40, y, C_q, stdout, dir_made,
                    fa, fb, fc, wi, wj, prev >>

\* MkRng with the generator seeded from the system instead of args.seed
MkRng_unseeded ==
    /\ pc = "mkrng"
    /\ rng' \in { default_rng(s) : s \in 0 .. MaxSeed }
    /\ pc' = "drawA"
    /\ UNCHANGED << run, argN, seed, dump_hex, np_major, default_int_bits,
                    A, B, A_q, B_q, prod, sum40, y, C_q, stdout, dir_made,
                    fa, fb, fc, wi, wj, prev >>

\* rng = np.random.default_rng(args.seed)
MkRng ==
    /\ pc = "mkrng"
    /\ rng' = default_rng(seed)
    /\ pc' = "drawA"
    /\ UNCHANGED << run, argN, seed, dump_hex, np_major, default_int_bits,
                    A, B, A_q, B_q, prod, sum40, y, C_q, stdout, dir_made,
                    fa, fb, fc, wi, wj, prev >>

\* A = rng.uniform(-1.0, 1.0, size=(args.N, 4))
DrawA ==
    /\ pc = "drawA"
    /\ A' = UniformArray(rng, argN, K)
    /\ rng' = Advance(rng, argN * K)
    /\ pc' = "drawB"
    /\ UNCHANGED << run, argN, seed, dump_hex, np_major, default_int_bits,
                    B, A_q, B_q, prod, sum40, y, C_q, stdout, dir_made,
                    fa, fb, fc, wi, wj, prev >>

\* B = rng.uniform(-1.0, 1.0, size=(4, args.N))
DrawB ==
    /\ pc = "drawB"
    /\ B' = UniformArray(rng, K, argN)
    /\ rng' = Advance(rng, K * argN)
    /\ pc' = "quantA"
    /\ UNCHANGED << run, argN, seed, dump_hex, np_major, default_int_bits,
                    A, A_q, B_q, prod, sum40, y, C_q, stdout, dir_made,
                    fa, fb, fc, wi, wj, prev >>

\* A_q = to_q15(A)
QuantA ==
    /\ pc = "quantA"
    /\ A_q' = to_q15(A)
    /\ pc' = "quantB"
    /\ UNCHANGED << run, argN, seed, dump_hex, np_major, default_int_bits, rng,
                    A, B, B_q, prod, sum40, y, C_q, stdout, dir_made,
                    fa, fb, fc, wi, wj, prev >>

\* B_q = to_q15(B)
QuantB ==
    /\ pc = "quantB"
    /\ B_q' = to_q15(B)
    /\ pc' = "golden"
    /\ UNCHANGED << run, argN, seed, dump_hex, np_major, default_int_bits, rng,
                    A, B, A_q, prod, sum40, y, C_q, stdout, dir_made,
                    fa, fb, fc, wi, wj, prev >>

\* prod, sum40, y, C_q
Golden ==
    /\ pc = "golden"
    /\ prod' = ProdArray(A_q, B_q, argN)
    /\ sum40' = SumArray(prod', argN, default_int_bits)
    /\ y' = [e \in DOMAIN sum40' |-> RoundShift(sum40'[e])]
    /\ C_q' = [e \in DOMAIN y' |-> Saturate(y'[e])]
    /\ pc' = "print"
    /\ UNCHANGED << run, argN, seed, dump_hex, np_major, default_int_bits, rng,
                    A, B, A_q, B_q, stdout, dir_made,
                    fa, fb, fc, wi, wj, prev >>

\* print(f"N=...  A:...  B:...  C:...")
PrintShapes ==
    /\ pc = "print"
    /\ stdout' = Append(stdout, [N |-> argN, A |-> <<argN, K>>,
                                 B |-> <<K, argN>>, C |-> <<argN, argN>>])
    /\ pc' = IF dump_hex THEN "mkdirs" ELSE "done"
    /\ UNCHANGED << run, argN, seed, dump_hex, np_major, default_int_bits, rng,
                    A, B, A_q, B_q, prod, sum40, y, C_q, dir_made,
                    fa, fb, fc, wi, wj, prev >>

\* os.makedirs(args.outdir, exist_ok=True)
MakeDirs ==
    /\ pc = "mkdirs"
    /\ dir_made' = TRUE
    /\ pc' = "openA"
    /\ UNCHANGED << run, argN, seed, dump_hex, np_major, default_int_bits, rng,
                    A, B, A_q, B_q, prod, sum40, y, C_q, stdout,
                    fa, fb, fc, wi, wj, prev >>

\* the element's line, or the OverflowError of int16 & 0xFFFF under NumPy 2
CanMask == np_major < 2

\* the loop indices after the body ran at (i, j) of a rows x cols loop nest
NextIdx(i, j, cols) == IF j + 1 < cols THEN <<i, j + 1>> ELSE <<i + 1, 0>>

\* with open(".../A_N.hex", "w") as fa
OpenA ==
    /\ pc = "openA"
    /\ fa' = << >>
    /\ wi' = 0 /\ wj' = 0
    /\ pc' = "writeA"
    /\ UNCHANGED << run, argN, seed, dump_hex, np_major, default_int_bits, rng,
                    A, B, A_q, B_q, prod, sum40, y, C_q, stdout, dir_made,
                    fb, fc, prev >>

\* for i in range(N): for k in range(4): fa.write(...)
WriteA ==
    /\ pc = "writeA"
    /\ IF CanMask
       THEN /\ fa' = Append(fa, HexLine(A_q[<<wi, wj>>]))
            /\ wi' = NextIdx(wi, wj, K)[1]
            /\ wj' = NextIdx(wi, wj, K)[2]
            /\ pc' = IF wi' < argN THEN "writeA" ELSE "openB"
       ELSE /\ pc' = "crashed"
            /\ UNCHANGED << fa, wi, wj >>
    /\ UNCHANGED << run, argN, seed, dump_hex, np_major, default_int_bits, rng,
                    A, B, A_q, B_q, prod, sum40, y, C_q, stdout, dir_made,
                    fb, fc, prev >>

\* with open(".../B_N.hex", "w") as fb
OpenB ==
    /\ pc = "openB"
    /\ fb' = << >>
    /\ wi' = 0 /\ wj' = 0
    /\ pc' = "writeB"
    /\ UNCHANGED << run, argN, seed, dump_hex, np_major, default_int_bits, rng,
                    A, B, A_q, B_q, prod, sum40, y, C_q, stdout, dir_made,
                    fa, fc, prev >>

\* for k in range(4): for j in range(N): fb.write(...)
WriteB ==
    /\ pc = "writeB"
    /\ IF CanMask
       THEN /\ fb' = Append(fb, HexLine(B_q[<<wi, wj>>]))
            /\ wi' = NextIdx(wi, wj, argN)[1]
            /\ wj' = NextIdx(wi, wj, argN)[2]
            /\ pc' = IF wi' < K THEN "writeB" ELSE "openC"
       ELSE /\ pc' = "crashed"
            /\ UNCHANGED << fb, wi, wj >>
    /\ UNCHANGED << run, argN, seed, dump_hex, np_major, default_int_bits, rng,
                    A, B, A_q, B_q, prod, sum40, y, C_q, stdout, dir_made,
                    fa, fc, prev >>

\* with open(".../C_N_gold.hex", "w") as fc
OpenC ==
    /\ pc = "openC"
    /\ fc' = << >>
    /\ wi' = 0 /\ wj' = 0
    /\ pc' = "writeC"
    /\ UNCHANGED << run, argN, seed, dump_hex, np_major, default_int_bits, rng,
                    A, B, A_q, B_q, prod, sum40, y, C_q, stdout, dir_made,
                    fa, fb, prev >>

\* for i in range(N): for j in range(N): fc.write(...)
WriteC ==
    /\ pc = "writeC"
    /\ IF CanMask
       THEN /\ fc' = Append(fc, HexLine(C_q[<<wi, wj>>]))
            /\ wi' = NextIdx(wi, wj, argN)[1]
            /\ wj' = NextIdx(wi, wj, argN)[2]
            /\ pc' = IF wi' < argN THEN "writeC" ELSE "done"
       ELSE /\ pc' = "crashed"
            /\ UNCHANGED << fc, wi, wj >>
    /\ UNCHANGED << run, argN, seed, dump_hex, np_major, default_int_bits, rng,
                    A, B, A_q, B_q, prod, sum40, y, C_q, stdout, dir_made,
                    fa, fb, prev >>

\* a second, independent invocation with the same --N and --seed: a new
\* process on the same build and the same file system
Rerun ==
    /\ pc \in {"done", "crashed"}
    /\ run = 1
    /\ run' = 2
    /\ prev' = [A_q |-> A_q, B_q |-> B_q, C_q |-> C_q]
    /\ dump_hex' \in BOOLEAN
    /\ pc' = "parse"
    /\ rng' = NoRng
    /\ A' = Empty /\ B' = Empty /\ A_q' = Empty /\ B_q' = Empty
    /\ prod' = Empty /\ sum40' = Empty /\ y' = Empty /\ C_q' = Empty
    /\ stdout' = << >>
    /\ wi' = 0 /\ wj' = 0
    /\ UNCHANGED << argN, seed, np_major, default_int_bits, dir_made, fa, fb, fc >>

Next ==
    \/ Parse \/ MkRng \/ DrawA \/ DrawB \/ QuantA \/ QuantB \/ Golden
    \/ PrintShapes \/ MakeDirs \/ OpenA \/ WriteA \/ OpenB \/ WriteB
    \/ OpenC \/ WriteC \/ Rerun

Spec == Init /\ [][Next]_vars

----------------------------------------------------------------------------
(* to_q15 and the golden model as functions: the same steps of main, entered
   with operands drawn from bounded sets instead of from the random source *)

\* everything of a process but its position and operands
Idle ==
    /\ run = 1 /\ seed = 0 /\ dump_hex = FALSE /\ np_major = 1
    /\ rng = NoRng
    /\ prod = Empty /\ sum40 = Empty /\ y = Empty /\ C_q = Empty
    /\ stdout = << >>
    /\ wi = 0 /\ wj = 0
    /\ dir_made = FALSE
    /\ fa = NoFile /\ fb = NoFile /\ fc = NoFile
    /\ prev = NoPrev

\* Q1.15 steps around which real inputs are drawn, inside and outside [-1, 1)
Centers == { -2 * Scale, -Scale, -Scale + 1, -2, -1, 0, 1, 2, 16384,
             Scale - 2, Scale - 1, Scale, 2 * Scale }

XInputs == { c * Den + d : c \in Centers, d \in (-Den) .. Den }

InitQ ==
    /\ pc = "quantA"
    /\ argN = 1
    /\ default_int_bits = 64
    /\ A \in { [e \in {<<0, 0>>} |-> q] : q \in XInputs }
    /\ B = Empty /\ A_q = Empty /\ B_q = Empty
    /\ Idle

NextQ == QuantA

SpecQ == InitQ /\ [][NextQ]_vars

\* Q1.15 operands of the golden model: elements of a row of A, of a column of B
QValsA == { QMin, 0, 16384, QMax }
QValsB == { QMin, 0, 1, 16384 }

InitG ==
    /\ pc = "golden"
    /\ argN = 1
    /\ default_int_bits \in {32, 64}
    /\ A = Empty /\ B = Empty
    /\ A_q \in [ {0} \X (0 .. K - 1) -> QValsA ]
    /\ B_q \in [ (0 .. K - 1) \X {0} -> QValsB ]
    /\ Idle

NextG == Golden

SpecG == InitG /\ [][NextG]_vars

----------------------------------------------------------------------------
(* The statements checked *)

Clamp16(v) == IF v < -32768 THEN -32768 ELSE IF v > 32767 THEN 32767 ELSE v

Abs(v) == IF v < 0 THEN -v ELSE v

\* the k-th product of output element (i, j), as an integer
P(i, j, k) == A_q[<<i, k>>] * B_q[<<k, j>>]

\* floor((P0 + P1 + P2 + P3 + 16384) / 32768), each product split at 2^15 so
\* that no intermediate leaves 32 bits
ExactRounded(i, j) ==
    (P(i, j, 0) \div 32768) + (P(i, j, 1) \div 32768)
    + (P(i, j, 2) \div 32768) + (P(i, j, 3) \div 32768)
    + (((P(i, j, 0) % 32768) + (P(i, j, 1) % 32768) + (P(i, j, 2) % 32768)
        + (P(i, j, 3) % 32768) + 16384) \div 32768)

\* P0 + P1 + P2 + P3 as limbs
ExactSum(i, j) ==
    LET l == (P(i, j, 0) % 32768) + (P(i, j, 1) % 32768)
             + (P(i, j, 2) % 32768) + (P(i, j, 3) % 32768)
    IN  [hi |-> (P(i, j, 0) \div 32768) + (P(i, j, 1) \div 32768)
                + (P(i, j, 2) \div 32768) + (P(i, j, 3) \div 32768)
                + (l \div 32768),
         lo |-> l % 32768]

InQ15(v) == -32768 <= v /\ v <= 32767

\* C1: every element of the golden C is clamp(floor((sum of the four exact
\* products + 16384) / 32768), -32768, 32767)
C1_GoldenIsExact ==
    C_q # Empty =>
        \A e \in DOMAIN C_q : C_q[e] = Clamp16(ExactRounded(e[1], e[2]))

\* C1 on a build whose default integer has 64 bits
C1_GoldenIsExact_64 ==
    (C_q # Empty /\ default_int_bits = 64) =>
        \A e \in DOMAIN C_q : C_q[e] = Clamp16(ExactRounded(e[1], e[2]))

IsConcreteCase ==
    /\ C_q # Empty
    /\ A_q = [e \in {0} \X (0 .. 3) |-> IF e[2] = 0 THEN 32767 ELSE 0]
    /\ B_q = [e \in (0 .. 3) \X {0} |-> IF e[1] = 0 THEN 16384 ELSE 0]

\* C2 as stated: row [32767,0,0,0] times column [16384,0,0,0] gives the
\* product 536117248 and the element 16368
C2_ConcreteCase_AsStated ==
    IsConcreteCase =>
        /\ prod[<<0, 0, 0>>] = Wide(536117248)
        /\ C_q[<<0, 0>>] = 16368

\* C2 amended: row [32767,0,0,0] times column [16384,0,0,0] gives the single
\* product 536854528, the shifted value 16384 and, unsaturated, the element
\* 16384
C2_ConcreteCase ==
    IsConcreteCase =>
        /\ prod[<<0, 0, 0>>] = Wide(32767 * 16384)
        /\ 32767 * 16384 = 536854528
        /\ \A k \in 1 .. 3 : prod[<<0, k, 0>>] = Wide(0)
        /\ sum40[<<0, 0>>] = Wide(536854528)
        /\ y[<<0, 0>>] = 16384
        /\ C_q[<<0, 0>>] = 16384

C2_Witness == IsConcreteCase /\ pc = "print" /\ InQ15(y[<<0, 0>>])

\* m is q / Den rounded to the nearest integer, a half going to the even one
NearestEven(m, q) ==
    /\ 2 * Abs(q - m * Den) <= Den
    /\ (2 * Abs(q - m * Den) = Den) => (m % 2 = 0)

\* C3: to_q15 returns clamp(r(x * 32768), -32768, 32767) for every input, r
\* rounding to nearest with halves to even; 1.0 and 2.0 give 32767, -1.0 and
\* -2.0 give -32768
C3_Quantize ==
    A_q # Empty =>
        /\ DOMAIN A_q = DOMAIN A
        /\ \A e \in DOMAIN A_q :
            /\ \E m \in ((A[e] \div Den) - 1) .. ((A[e] \div Den) + 2) :
                  NearestEven(m, A[e]) /\ A_q[e] = Clamp16(m)
            /\ (A[e] = Den * 32768) => (A_q[e] = 32767)
            /\ (A[e] = -(Den * 32768)) => (A_q[e] = -32768)
            /\ (A[e] = 2 * Den * 32768) => (A_q[e] = 32767)
            /\ (A[e] = -(2 * Den * 32768)) => (A_q[e] = -32768)

\* two and a half steps, a tie, went to 2
C3_Witness ==
    /\ pc = "quantB"
    /\ A = [e \in {<<0, 0>>} |-> 2 * Den + Den \div 2]
    /\ A_q = [e \in {<<0, 0>>} |-> 2]

\* C4: for -1 <= x < 1, |to_q15(x) / 32768 - x| <= 1 / 32768
C4_RoundTrip ==
    A_q # Empty =>
        \A e \in DOMAIN A_q :
            (-(Den * 32768) <= A[e] /\ A[e] < Den * 32768) =>
                Abs(A_q[e] * Den - A[e]) <= Den

\* an input just below 1.0, whose rounded value 32768 was clipped
C4_Witness ==
    /\ pc = "quantB"
    /\ A[<<0, 0>>] = Den * 32768 - 1
    /\ A_q[<<0, 0>>] = 32767

\* every element of a matrix lies in [-32768, 32767]
AllInQ15(m) == \A e \in DOMAIN m : InQ15(m[e])

\* C5: all elements of A_q, B_q, C_q lie in [-32768, 32767], and an output
\* element whose biased, shifted sum of exact products is above 32767 (below
\* -32768) is stored as exactly 32767 (-32768)
C5_RangeAndSaturation ==
    /\ AllInQ15(A_q) /\ AllInQ15(B_q) /\ AllInQ15(C_q)
    /\ \A e \in DOMAIN C_q :
        /\ (ExactRounded(e[1], e[2]) > 32767) => (C_q[e] = 32767)
        /\ (ExactRounded(e[1], e[2]) < -32768) => (C_q[e] = -32768)

\* C5 on a build whose default integer has 64 bits
C5_RangeAndSaturation_64 == (default_int_bits = 64) => C5_RangeAndSaturation

\* C6: with --N outside {4, 8, 16} nothing is drawn, quantized, multiplied,
\* created or written, and the run can only be at its start or in the error
\* state
C6_InvalidNRejected ==
    (argN \notin {4, 8, 16}) =>
        /\ pc \in {"parse", "error"}
        /\ rng = NoRng
        /\ A = Empty /\ B = Empty /\ A_q = Empty /\ B_q = Empty
        /\ prod = Empty /\ sum40 = Empty /\ y = Empty /\ C_q = Empty
        /\ dir_made = FALSE
        /\ fa = NoFile /\ fb = NoFile /\ fc = NoFile

C6_Witness == argN = 5 /\ pc = "error" /\ dump_hex

\* C7: the second run with the same (N, seed) has the matrices of the first,
\* whatever its --dump_hex and whatever the first run left on disk
C7_Determinism ==
    (run = 2) =>
        /\ (A_q # Empty) => (A_q = prev.A_q)
        /\ (B_q # Empty) => (B_q = prev.B_q)
        /\ (C_q # Empty) => (C_q = prev.C_q)

C7_Witness ==
    /\ run = 2 /\ pc = "done" /\ ~dump_hex /\ fc # NoFile
    /\ C_q # Empty /\ C_q = prev.C_q /\ A_q = prev.A_q /\ B_q = prev.B_q

\* the value of a hex digit
DigitVal(c) == CHOOSE d \in 0 .. 15 : HexDigits[d + 1] = c

\* line is the four lowercase hex digits of v mod 2^16
IsHex16(line, v) ==
    /\ Len(line) = 4
    /\ \A i \in 1 .. 4 : \E d \in 0 .. 15 : HexDigits[d + 1] = line[i]
    /\ DigitVal(line[1]) * 4096 + DigitVal(line[2]) * 256
       + DigitVal(line[3]) * 16 + DigitVal(line[4])
         = (IF v >= 0 THEN v ELSE v + 65536)

\* the three files hold the three matrices, one line per element, row-major
FilesComplete ==
    /\ fa # NoFile /\ fb # NoFile /\ fc # NoFile
    /\ Len(fa) = 4 * argN /\ Len(fb) = 4 * argN /\ Len(fc) = argN * argN
    /\ \A i \in 0 .. argN - 1 : \A k \in 0 .. 3 :
          IsHex16(fa[4 * i + k + 1], A_q[<<i, k>>])
    /\ \A k \in 0 .. 3 : \A j \in 0 .. argN - 1 :
          IsHex16(fb[argN * k + j + 1], B_q[<<k, j>>])
    /\ \A i \in 0 .. argN - 1 : \A j \in 0 .. argN - 1 :
          IsHex16(fc[argN * i + j + 1], C_q[<<i, j>>])

\* C8: a run with --dump_hex ends with A_N.hex, B_N.hex and C_N_gold.hex
\* holding one 4-digit lowercase two's-complement hex line per element, in
\* row-major order
C8_HexDump ==
    (dump_hex /\ pc \in {"done", "crashed"}) => FilesComplete

\* C8 on NumPy 1
C8_HexDump_np1 ==
    (np_major = 1 /\ dump_hex /\ pc \in {"done", "crashed"}) =>
        (pc = "done" /\ FilesComplete)

\* v is s / 2^15 rounded to a nearest integer
IsNearest(v, s) ==
    \/ v = s.hi /\ 2 * s.lo <= 32768
    \/ v = s.hi + 1 /\ 2 * s.lo >= 32768

\* s lies exactly half-way between two integers
IsTie(s) == s.lo = 16384

\* C9 as stated: the shifted value is the sum / 2^15 rounded to nearest, a
\* tie going away from zero whatever the sign of the sum
C9_TiesAwayFromZero ==
    C_q # Empty =>
        \A e \in DOMAIN y :
            /\ IsNearest(y[e], sum40[e])
            /\ IsTie(sum40[e]) =>
                  (y[e] = IF sum40[e].hi >= 0 THEN sum40[e].hi + 1
                                              ELSE sum40[e].hi)

\* C9 amended: the shifted value is the sum / 2^15 rounded to nearest, a tie
\* going up (toward plus infinity): away from zero for a positive sum, toward
\* zero for a negative one
C9_TiesUp ==
    C_q # Empty =>
        \A e \in DOMAIN y :
            /\ IsNearest(y[e], sum40[e])
            /\ IsTie(sum40[e]) => (y[e] = sum40[e].hi + 1)

\* the sum -16384, half-way between -1 and 0, went to 0
C9_Witness ==
    /\ pc = "print"
    /\ sum40[<<0, 0>>] = [hi |-> -1, lo |-> 16384]
    /\ y[<<0, 0>>] = 0

\* the value of limbs s fits a signed word of 40 bits
Fits40(s) == -(2 ^ 24) <= s.hi /\ s.hi < 2 ^ 24

\* C10: every product is the exact product and lies in [-2^30, 2^30]; the sum
\* and the sum plus bias are the exact ones and fit 40 bits; the value
\* shifted is the exact sum plus bias
C10_NoOverflow ==
    C_q # Empty =>
        /\ \A e \in DOMAIN prod :
              /\ prod[e] = Wide(P(e[1], e[3], e[2]))
              /\ -(2 ^ 30) <= P(e[1], e[3], e[2])
              /\ P(e[1], e[3], e[2]) <= 2 ^ 30
        /\ \A e \in DOMAIN sum40 :
              /\ sum40[e] = ExactSum(e[1], e[2])
              /\ Fits40(sum40[e])
              /\ Fits40(WAdd(sum40[e], Wide(16384)))
              /\ y[e] = ExactRounded(e[1], e[2])

\* C10 on a build whose default integer has 64 bits
C10_NoOverflow_64 == (default_int_bits = 64) => C10_NoOverflow

====
